---- MODULE Spec2Model ----
(***************************************************************************)
(* Vault authentication state machine of keepassman (WebVault).            *)
(*                                                                         *)
(* State: the localStorage slots, the module-level session variables of    *)
(* the main controller (sessionKey, vault, isDecoyMode), the master-pwd    *)
(* input, the auth/vault view, and the position of every asynchronous      *)
(* handler that is suspended at an await (unlock attempts, save-vault,     *)
(* biometricUnlock).                                                       *)
(*                                                                         *)
(* Cryptography is modelled symbolically: a derived key is the pair        *)
(* (password, salt) it was derived from, a ciphertext is the sealed triple *)
(* (key, iv, plaintext), and decryption succeeds exactly under the sealing *)
(* key (AES-GCM authenticates).                                            *)
(***************************************************************************)
EXTENDS Integers, Sequences, FiniteSets, Bags, TLC

(* ------------------------------ bounds --------------------------------- *)
\* unlock handlers that may be suspended at an await at the same time
MaxAttempts == 2
\* salts generateSalt() may hand out in one run
MaxSalts == 2
\* ivs CryptoEngine.encrypt may draw in one run
MaxIv == 2
\* entries the in-memory vault may hold
MaxEntries == 1
\* keys of unlock handlers that are unreferenced and not yet finalized (counted up to this)
MaxLeaked == 1
\* handleSaveEntry calls suspended at the breach check
MaxPending == 2
\* entries created through the modal
MaxCreated == 2

(* ---------------------------- program constants ------------------------ *)
MinPwdLen == 12
\* passwords kept in an entry's history
HistoryLimit == 5

(* ------------------------------ value sets ----------------------------- *)
Passwords == {"pwA", "pwB", "pwC"}
ShortPwd == "short"

\* what the user types into setup-pwd / setup-pwd-conf and into the duress prompt
SetupPwds == {"pwA", ShortPwd}
ConfirmPwds == {"pwA", "pwB"}
DuressPwds == {"pwA", "pwB", ShortPwd, ""}

PwdLen(p) == IF p = "" THEN 0 ELSE IF p = ShortPwd THEN 5 ELSE 12

NoSalt == -1
\* a salt generateSalt() returned that was never stored: equal to no stored salt
UnstoredSalt == -2
\* the salt carried by a backup file written elsewhere
BackupSalt == 0

NoKey == [pwd |-> "", salt |-> NoSalt]

EntryIds == {"e1"}
EntryPwds == {"x", "y"}
\* the entryData of the entry modal: it carries no history
Entries == [id : EntryIds, title : {"t"}, password : EntryPwds, history : {<<>>}]
DecoyEntry == [id |-> "decoy-1", title |-> "Fake Bank", password |-> "password123",
               history |-> <<>>]

\* stored vaults whose entry has a history, as the documented data model allows
HistoryVaults ==
    { <<[id |-> "e1", title |-> "t", password |-> "x", history |-> hist]>>
        : hist \in { <<"w">>, <<"w", "v", "w", "v", "w">> } }

\* a plaintext string: kind "json" holds a serialised vault, "garbage" is a
\* non-empty string JSON.parse rejects
NoText == [kind |-> "none", entries |-> <<>>]
GarbageText == [kind |-> "garbage", entries |-> <<>>]
\* the empty string
EmptyText == [kind |-> "empty", entries |-> <<>>]

\* intact: the stored ciphertext, tag and iv are the bytes encrypt produced
NoBlob == [key |-> NoKey, iv |-> -1, pt |-> NoText, intact |-> TRUE]

\* what a cipher without authentication would return for altered bytes
AlteredEntry == [id |-> "e1", title |-> "t", password |-> "altered", history |-> <<>>]
AlteredText == [kind |-> "json", entries |-> <<AlteredEntry>>]

\* credential ids the platform authenticator hands out
CredIds == {"cred1"}
NoCred == ""
\* bio_wrapped_password is absent
NoWrapKey == <<"none", "">>
NoWrap == [key |-> NoWrapKey, pt |-> ""]

(* ------------------------------ pure functions ------------------------- *)
\* JSON.stringify(vault) / JSON.stringify(initialVault)
JsonStringify(v) == [kind |-> "json", entries |-> v]

\* JSON.parse(decrypted) throws on text that is not JSON
JsonParseThrows(t) == t.kind # "json"
JsonParse(t) == t.entries

\* CryptoEngine.deriveKey: deterministic in (password, salt), injective
DeriveKey(pwd, salt) == [pwd |-> pwd, salt |-> salt]

\* CryptoEngine.encrypt with the iv it drew
Encrypt(text, key, iv) == [key |-> key, iv |-> iv, pt |-> text, intact |-> TRUE]

\* a cipher without authentication
DecryptNeverThrows(blob, key) == FALSE

\* AES-256-GCM in the bridge: the tag does not match altered ciphertext or iv
TagMismatch(blob) == ~blob.intact

\* a decrypt that checks the key only
DecryptThrowsOnKeyOnly(blob, key) == blob.key # key

\* CryptoEngine.decrypt: throws unless the key is the sealing key and the tag matches
DecryptThrows(blob, key) == blob.key # key \/ TagMismatch(blob)
Decrypt(blob, key) == IF blob.intact THEN blob.pt ELSE AlteredText

\* deriveWrappingKey(credentialId): deterministic in the credential id alone
deriveWrappingKey(credentialId) == <<"wrap", credentialId>>

\* an encryptPassword that stores the password as it is
encryptPasswordUnsealed(password, wrappingKey) == [key |-> NoWrapKey, pt |-> password]

\* encryptPassword / decryptPassword: AES-GCM under the wrapping key
encryptPassword(password, wrappingKey) == [key |-> wrappingKey, pt |-> password]
decryptPasswordThrows(wrapped, wrappingKey) == wrapped.key # wrappingKey

\* a decryptPassword that decodes nothing
decryptPasswordBlank(wrapped, wrappingKey) == ""

decryptPassword(wrapped, wrappingKey) == wrapped.pt

Min(a, b) == IF a < b THEN a ELSE b

(* ------------------------------ SecurityScanner ------------------------ *)
\* strings handed to the validators are sequences of characters
Base32Alphabet ==
    {"A", "B", "C", "D", "E", "F", "G", "H", "I", "J", "K", "L", "M", "N", "O", "P", "Q",
     "R", "S", "T", "U", "V", "W", "X", "Y", "Z", "2", "3", "4", "5", "6", "7"}
Whitespace == {" ", "\t"}

\* line 224: minimum length of a TOTP secret
MinSecretLen == 16

\* input.replace(/\s+/g, '')
RECURSIVE RemoveWhitespace(_)
RemoveWhitespace(s) ==
    IF s = <<>> THEN <<>>
    ELSE IF Head(s) \in Whitespace THEN RemoveWhitespace(Tail(s))
    ELSE <<Head(s)>> \o RemoveWhitespace(Tail(s))

\* cleaned.match(/=+$/): the length of the run of '=' the string ends with
RECURSIVE PaddingLength(_)
PaddingLength(s) ==
    IF s = <<>> \/ s[Len(s)] # "=" THEN 0
    ELSE 1 + PaddingLength(SubSeq(s, 1, Len(s) - 1))

\* /^[A-Z2-7]+=*$/.test(cleaned)
Base32Pattern(s) ==
    LET body == Len(s) - PaddingLength(s)
    IN /\ body >= 1
       /\ \A i \in 1..body : s[i] \in Base32Alphabet

\* a padding check that lets every run of '=' pass
PaddingAny(padding) == TRUE

\* [1, 3, 4, 6].includes(padding)
PaddingAllowed(padding) == padding \in {1, 3, 4, 6}

\* SecurityScanner.validateBase32: "valid", or the reason the input is refused
validateBase32(input) ==
    IF input = <<>> THEN "empty"
    ELSE LET cleaned == RemoveWhitespace(input)
             padding == PaddingLength(cleaned)
         IN IF ~Base32Pattern(cleaned) THEN "format"
            ELSE IF padding > 0 /\ ~PaddingAllowed(padding) THEN "padding"
            ELSE IF Len(cleaned) < MinSecretLen THEN "short"
            ELSE "valid"

\* strings typed into the modal: one that detectXSS flags, one that
\* detectInjection flags, and a blank that sanitizeInput trims to nothing
XssString == "<script>"
InjectionString == "--"
BlankString == " "

\* a detectXSS that matches nothing
detectNothing(input) == FALSE

\* SecurityScanner.detectXSS / detectInjection: some pattern matches the input
detectXSS(input) == input = XssString
detectInjection(input) == input = InjectionString

\* SecurityScanner.sanitizeInput: control characters removed, then trim()
sanitizeInput(input) == IF input = BlankString THEN "" ELSE input

\* SecurityScanner.validateAndSanitize: throws on a flagged input, else the
\* sanitised input ("" for an empty input)
validateAndSanitizeThrows(input) == input # "" /\ (detectXSS(input) \/ detectInjection(input))
validateAndSanitize(input) == IF input = "" THEN "" ELSE sanitizeInput(input)

\* String.prototype.toUpperCase on the characters used here
ToUpperCase(s) == [i \in 1..Len(s) |-> IF s[i] = "a" THEN "A" ELSE s[i]]

\* SecurityScanner.findDuplicatePasswords: titles of the other entries with this password
findDuplicatePasswords(entries, newPassword, excludeId) ==
    LET same == SelectSeq(entries, LAMBDA e : e.id # excludeId /\ e.password = newPassword)
    IN [i \in 1..Len(same) |-> same[i].title]

(* ------------------------------ state ---------------------------------- *)
VARIABLES
    store,        \* localStorage: encrypted_vault, vault_salt, decoy_vault, decoy_salt, vault_initialized
    sessionKey,   \* let sessionKey: CryptoKey | null
    vault,        \* let vault = { entries: [] }   (the entries array)
    isDecoyMode,  \* let isDecoyMode = false
    origin,       \* history: the slot whose decryption produced sessionKey
    view,         \* "auth" (auth-section shown) or "vault" (vault-content shown)
    masterPwd,    \* value of the master-pwd input
    att,          \* the unlock-btn click handlers suspended at an await (a bag of their locals)
    save,         \* the save-vault handler, idle or suspended at its await
    nextSalt,     \* the next value generateSalt() returns
    ivCtr,        \* the next iv CryptoEngine.encrypt draws
    leaked,       \* keys derived by unlock handlers that are no longer referenced and were never wiped
    alertMsg,     \* the alert() dialog on screen, "" when there is none
    alertFor,     \* history: which unlock handler the dialog on screen reports on
    bio,          \* the biometricUnlock handler, idle or suspended at navigator.credentials.get
    pwdTimer,     \* the setTimeout of biometricUnlock that clears master-pwd is pending
    usedNonces,   \* history: the (key, iv) pairs CryptoEngine.encrypt has sealed a vault under
    modal,        \* EntryModal: shown or hidden, editingEntry, and the values of its inputs
    pend,         \* the handleSaveEntry calls suspended at checkPasswordBreach (a bag of their locals)
    toast,        \* the message the last step of the modal showed with showToast, "" when none
    nextUuid,     \* the next value crypto.randomUUID() returns
    breach,       \* history: what checkPasswordBreach answered in the last step, "none" otherwise
    b32,          \* a TOTP secret handed to validateBase32 and the verdict on it
    badge         \* an entropy estimate handed to the table row and the strength label shown

vars == <<store, sessionKey, vault, isDecoyMode, origin, view, masterPwd,
          att, save, nextSalt, ivCtr, leaked, alertMsg, alertFor, bio, pwdTimer,
          usedNonces, modal, pend, toast, nextUuid, breach, b32, badge>>

\* the variables of the biometric handlers
bioVars == <<bio, pwdTimer>>

\* the variables of the entry modal and of the validators
uiVars == <<modal, pend, toast, nextUuid, breach, b32, badge>>

\* the locals of one unlock handler: pwd, real, decoy, realKey/decoyKey, decrypted
NewAtt == [pc |-> "start", pwd |-> "", real |-> NoBlob, decoy |-> NoBlob,
           key |-> NoKey, decrypted |-> NoText]

InFlight == BagToSet(att)

\* no unlock handler reported by the dialog
NoReport == [slots |-> "none", wrong |-> FALSE, keySet |-> FALSE]

IdleSave == [pc |-> "idle", blob |-> NoBlob, keyOrigin |-> "none"]

EmptyStore == [encrypted_vault |-> NoBlob, vault_salt |-> NoSalt,
               decoy_vault |-> NoBlob, decoy_salt |-> NoSalt,
               vault_initialized |-> FALSE,
               bio_credential_id |-> NoCred, bio_wrapped_password |-> NoWrap,
               bio_registered |-> FALSE]

\* biometricUnlock with no call pending; its locals are idBase64 and wrappedPasswordJson
IdleBio == [pc |-> "idle", id |-> NoCred, wrapped |-> NoWrap]

\* alert texts
MsgDenied == "Access Denied: Incorrect Master Password."
MsgEncErr == "Encryption Error."
MsgSaved == "Vault Encrypted & Saved Successfully."
MsgTooShort == "Security Requirement: Master Password must be at least 12 characters."
MsgMismatch == "Passwords do not match."
MsgCreated == "Vault created successfully! Please log in with your new password."
MsgDuressShort == "Duress password must be at least 12 characters."
MsgDuressReady == "Duress Vault Ready. Log in with this password to show fake data."
MsgBioUnlockFirst == "Please unlock your vault first before enabling biometrics."
MsgBioNoPwd == "Master password not found. Please unlock your vault first."
MsgBioRegistered == "Passkey registered! Next time, unlock with TouchID/FaceID without entering password."
MsgBioRegFailed == "Passkey registration failed. Ensure you're using HTTPS and have a compatible device."
MsgNoPasskey == "No passkey found. Please register TouchID/FaceID first."
MsgLegacyBio == "Legacy biometric mode detected. Please re-register your passkey for passwordless unlock."
MsgBioFailed == "TouchID/FaceID authentication failed or was cancelled."

\* the entry modal hidden, its inputs empty (closeModal and the form reset)
NoEntryId == ""
EmptyForm == [title |-> "", username |-> "", password |-> "", totp |-> <<>>]
ClosedModal == [open |-> FALSE, editingEntry |-> NoEntryId, form |-> EmptyForm]

\* nothing was handed to validateBase32
NoProbe == [input |-> <<>>, verdict |-> "none"]

\* no table row was rendered
NoBadge == [entropy |-> 0, label |-> "none"]

\* page load: module-level initialisers, initApp(); localStorage is empty on first run
InitApp ==
    /\ store = EmptyStore
    /\ sessionKey = NoKey
    /\ vault = <<>>
    /\ isDecoyMode = FALSE
    /\ origin = "none"
    /\ view = "auth"
    /\ masterPwd = ""
    /\ att = EmptyBag
    /\ save = IdleSave
    /\ nextSalt = 1
    /\ ivCtr = 1
    /\ leaked = 0
    /\ alertMsg = ""
    /\ alertFor = NoReport
    /\ bio = IdleBio
    /\ pwdTimer = FALSE
    /\ usedNonces = EmptyBag
    /\ modal = ClosedModal
    /\ pend = EmptyBag
    /\ toast = ""
    /\ nextUuid = 1
    /\ breach = "none"

Init == InitApp /\ b32 = NoProbe /\ badge = NoBadge

\* location.reload(): every script variable and pending handler is discarded,
\* localStorage survives
Reload ==
    /\ sessionKey' = NoKey
    /\ vault' = <<>>
    /\ isDecoyMode' = FALSE
    /\ origin' = "none"
    /\ view' = "auth"
    /\ masterPwd' = ""
    /\ att' = EmptyBag
    /\ save' = IdleSave
    /\ leaked' = 0
    /\ alertFor' = NoReport
    /\ bio' = IdleBio
    /\ pwdTimer' = FALSE
    /\ modal' = ClosedModal
    /\ pend' = EmptyBag
    /\ toast' = ""
    /\ breach' = "none"

\* alert() is modal: no handler runs while a dialog is open
Ready == alertMsg = ""

\* the user dismisses the dialog
DismissAlert ==
    /\ UNCHANGED uiVars
    /\ alertMsg # ""
    /\ UNCHANGED usedNonces
    /\ alertMsg' = ""
    /\ alertFor' = NoReport
    /\ UNCHANGED <<store, sessionKey, vault, isDecoyMode, origin, view, masterPwd,
                   att, save, nextSalt, ivCtr, leaked, bioVars>>

\* an encrypt that takes the iv of the stored primary blob when there is one
DrawIvStored ==
    IF store.encrypted_vault # NoBlob THEN store.encrypted_vault.iv ELSE ivCtr

\* CryptoEngine.encrypt, line 35: the 12 random bytes it draws, taken as never
\* drawn before
DrawIv == ivCtr

\* a getSalt that never looks at localStorage
getSaltAlwaysNew(stored) == UnstoredSalt

\* getSalt(storageKey): the stored salt, or a newly generated one that is not stored
getSalt(stored) == IF stored # NoSalt THEN stored ELSE UnstoredSalt

(* ------------------------------ setup ---------------------------------- *)
\* a wizard that does not compare the password with its confirmation
PasswordsDifferNever(p1, p2) == FALSE

\* line 275: if (p1 !== p2)
PasswordsDiffer(p1, p2) == p1 # p2

\* wizard-finish-btn: handleFinishSetup (initApp shows the wizard while vault_initialized is unset)
handleFinishSetup(p1, p2) ==
    /\ Ready
    /\ ~store.vault_initialized
    /\ IF PwdLen(p1) < MinPwdLen
       THEN /\ alertMsg' = MsgTooShort
            /\ UNCHANGED <<store, sessionKey, vault, isDecoyMode, origin, view, masterPwd,
                           att, save, nextSalt, ivCtr, leaked, alertFor, bioVars,
                           usedNonces, uiVars>>
       ELSE IF PasswordsDiffer(p1, p2)
       THEN /\ alertMsg' = MsgMismatch
            /\ UNCHANGED <<store, sessionKey, vault, isDecoyMode, origin, view, masterPwd,
                           att, save, nextSalt, ivCtr, leaked, alertFor, bioVars,
                           usedNonces, uiVars>>
       ELSE /\ nextSalt <= MaxSalts
            /\ ivCtr <= MaxIv
            /\ LET salt == nextSalt
                   key == DeriveKey(p1, salt)
                   blob == Encrypt(JsonStringify(<<>>), key, DrawIv)
               IN /\ store' = [store EXCEPT !.encrypted_vault = blob,
                                            !.vault_salt = salt,
                                            !.vault_initialized = TRUE]
                  /\ usedNonces' = usedNonces (+) SetToBag({<<key, DrawIv>>})
            /\ nextSalt' = nextSalt + 1
            /\ ivCtr' = ivCtr + 1
            /\ alertMsg' = MsgCreated
            /\ Reload
            /\ UNCHANGED <<nextUuid, b32, badge>>

\* a setupDuress that stores under the keys of the primary slot
DuressSlotsPrimary == [blob |-> "encrypted_vault", salt |-> "vault_salt"]

\* lines 509 and 513: the localStorage keys setupDuress writes
DuressSlots == [blob |-> "decoy_vault", salt |-> "decoy_salt"]

\* setup-duress-btn: setupDuress
setupDuress(dPwd) ==
    /\ UNCHANGED uiVars
    /\ Ready
    /\ IF dPwd = ""
       THEN /\ alertMsg' = ""
            /\ UNCHANGED <<store, sessionKey, vault, isDecoyMode, origin, view, masterPwd,
                           att, save, nextSalt, ivCtr, leaked, alertFor, bioVars,
                           usedNonces>>
       ELSE IF PwdLen(dPwd) < MinPwdLen
       THEN /\ alertMsg' = MsgDuressShort
            /\ UNCHANGED <<store, sessionKey, vault, isDecoyMode, origin, view, masterPwd,
                           att, save, nextSalt, ivCtr, leaked, alertFor, bioVars,
                           usedNonces>>
       ELSE /\ nextSalt <= MaxSalts
            /\ ivCtr <= MaxIv
            /\ LET salt == nextSalt
                   key == DeriveKey(dPwd, salt)
                   blob == Encrypt(JsonStringify(<<DecoyEntry>>), key, DrawIv)
               IN /\ store' = [store EXCEPT ![DuressSlots.blob] = blob,
                                            ![DuressSlots.salt] = salt]
                  /\ usedNonces' = usedNonces (+) SetToBag({<<key, DrawIv>>})
            /\ nextSalt' = nextSalt + 1
            /\ ivCtr' = ivCtr + 1
            /\ alertMsg' = MsgDuressReady
            /\ UNCHANGED <<sessionKey, vault, isDecoyMode, origin, view, masterPwd,
                           att, save, leaked, alertFor, bioVars>>

\* backup files offered to importBackup: sealed elsewhere under pwA and BackupSalt
BackupFiles ==
    { [valid |-> TRUE, vault |-> Encrypt(t, DeriveKey("pwA", BackupSalt), 0), salt |-> BackupSalt]
        : t \in {JsonStringify(<<>>), GarbageText, EmptyText} }
    \cup { [valid |-> FALSE, vault |-> NoBlob, salt |-> NoSalt] }

\* backup files of vaults with entry histories
HistoryBackupFiles ==
    { [valid |-> TRUE, vault |-> Encrypt(JsonStringify(v), DeriveKey("pwA", BackupSalt), 0),
       salt |-> BackupSalt] : v \in HistoryVaults }

\* a restore that keeps what is stored
StoreKept == store

\* crypto.ts line 317: localStorage.clear()
StoreCleared == EmptyStore

\* BackupService.importBackup, offered by the setup wizard
importBackup(file) ==
    /\ UNCHANGED uiVars
    /\ Ready
    /\ UNCHANGED usedNonces
    /\ ~store.vault_initialized
    /\ IF ~file.valid
       THEN UNCHANGED store
       ELSE store' = [StoreCleared EXCEPT !.encrypted_vault = file.vault,
                                          !.vault_salt = file.salt,
                                          !.vault_initialized = TRUE]
    /\ alertMsg' = ""
    /\ UNCHANGED <<sessionKey, vault, isDecoyMode, origin, view, masterPwd,
                   att, save, nextSalt, ivCtr, leaked, alertFor, bioVars>>

(* ------------------------------ unlock --------------------------------- *)
\* a string is truthy unless it is null or empty
Truthy(t) == t.kind \notin {"none", "empty"}

\* which slots the handler found stored
SlotsRead(cur) ==
    IF cur.real # NoBlob
    THEN IF cur.decoy # NoBlob THEN "both" ELSE "primaryOnly"
    ELSE IF cur.decoy # NoBlob THEN "decoyOnly" ELSE "neither"

\* the password is not the one either blob was sealed with
WrongForAll(cur) ==
    /\ cur.real # NoBlob => cur.real.key.pwd # cur.pwd
    /\ cur.decoy # NoBlob => cur.decoy.key.pwd # cur.pwd

Report(cur, keySet) == [slots |-> SlotsRead(cur), wrong |-> WrongForAll(cur), keySet |-> keySet]

\* a handler whose denial names the slot that failed
DenialMsgPerSlot(cur) ==
    IF cur.decoy # NoBlob THEN "Access Denied: Incorrect Duress Password." ELSE MsgDenied

\* line 602: the alert of a denied attempt
DenialMsg(cur) == MsgDenied

\* unlock handler, lines 574-602: the code after both slot attempts; rest are the
\* other suspended handlers, cur the locals, keySet whether this step assigned sessionKey
UnlockTail(rest, cur, keySet) ==
    /\ att' = rest
    /\ IF Truthy(cur.decrypted) \/ (cur.real = NoBlob /\ cur.decoy = NoBlob)
       THEN IF Truthy(cur.decrypted) /\ JsonParseThrows(cur.decrypted)
            THEN /\ alertMsg' = MsgEncErr
                 /\ alertFor' = Report(cur, keySet)
                 /\ UNCHANGED <<vault, view>>
            ELSE /\ vault' = IF Truthy(cur.decrypted) THEN JsonParse(cur.decrypted) ELSE vault
                 /\ view' = "vault"
                 /\ alertMsg' = ""
                 /\ alertFor' = NoReport
       ELSE /\ alertMsg' = DenialMsg(cur)
            /\ alertFor' = Report(cur, keySet)
            /\ UNCHANGED <<vault, view>>

\* a decoy block that derives its key from the primary salt
EnterDecoyPrimarySalt(rest, cur) ==
    /\ att' = rest (+) SetToBag({[cur EXCEPT !.pc = "decoy",
                                    !.key = DeriveKey(cur.pwd, getSalt(store.vault_salt))]})
    /\ alertMsg' = ""
    /\ alertFor' = NoReport
    /\ UNCHANGED <<vault, view>>

\* unlock handler entering the decoy block (lines 563-566): reads decoy_salt, awaits deriveKey
EnterDecoy(rest, cur) ==
    /\ att' = rest (+) SetToBag({[cur EXCEPT !.pc = "decoy",
                                    !.key = DeriveKey(cur.pwd, getSalt(store.decoy_salt))]})
    /\ alertMsg' = ""
    /\ alertFor' = NoReport
    /\ UNCHANGED <<vault, view>>

\* an unlock whose getSalt stores the salt it generated
UnlockStoreSaltKept(s) ==
    [s EXCEPT !.vault_salt = IF s.encrypted_vault # NoBlob THEN getSalt(s.vault_salt) ELSE @,
              !.decoy_salt = IF s.decoy_vault # NoBlob THEN getSalt(s.decoy_salt) ELSE @]

\* lines 539-604 and 253-260: the handler and getSalt call localStorage.getItem
\* only; what a step of the handler leaves of the store s
UnlockStore(s) == s

\* the unlock-btn click handler run with p in master-pwd: lines 539-554, up to the first await
UnlockHandlerStart(p) ==
    /\ BagCardinality(att) < MaxAttempts
    /\ UNCHANGED usedNonces
    /\ store' = UnlockStore(store)
    /\ UNCHANGED <<sessionKey, isDecoyMode, origin, save, nextSalt, ivCtr, leaked>>
    /\ IF p = ""
       THEN UNCHANGED <<att, vault, view, alertMsg, alertFor>>
       ELSE LET real == store.encrypted_vault
                decoy == store.decoy_vault
                cur == [NewAtt EXCEPT !.pwd = p, !.real = real, !.decoy = decoy]
            IN IF real # NoBlob
               THEN /\ att' = att (+) SetToBag({[cur EXCEPT !.pc = "real",
                                  !.key = DeriveKey(p, getSalt(store.vault_salt))]})
                    /\ UNCHANGED <<vault, view, alertMsg, alertFor>>
               ELSE IF decoy # NoBlob
                    THEN EnterDecoy(att, cur)
                    ELSE UnlockTail(att, cur, FALSE)

\* the user fills master-pwd with p and clicks unlock-btn
UnlockClick(p) ==
    /\ UNCHANGED uiVars
    /\ Ready
    /\ view = "auth"
    /\ masterPwd' = p
    /\ UnlockHandlerStart(p)
    /\ UNCHANGED bioVars

\* unlock handler h resumed in the primary block, lines 555-572
UnlockReal(h) ==
    /\ UNCHANGED uiVars
    /\ Ready
    /\ UNCHANGED usedNonces
    /\ h \in InFlight
    /\ h.pc = "real"
    /\ store' = UnlockStore(store)
    /\ UNCHANGED <<masterPwd, save, nextSalt, ivCtr, bioVars>>
    /\ LET rest == att (-) SetToBag({h}) IN
       IF DecryptThrows(h.real, h.key)
       THEN \* catch { }: realKey goes out of scope, never wiped
            /\ leaked' = Min(leaked + 1, MaxLeaked)
            /\ UNCHANGED <<sessionKey, isDecoyMode, origin>>
            /\ IF h.decoy # NoBlob
               THEN EnterDecoy(rest, h)
               ELSE UnlockTail(rest, h, FALSE)
       ELSE LET held == [h EXCEPT !.decrypted = Decrypt(h.real, h.key)]
            IN /\ sessionKey' = h.key
               /\ isDecoyMode' = FALSE
               /\ origin' = "primary"
               /\ leaked' = IF sessionKey # NoKey THEN Min(leaked + 1, MaxLeaked) ELSE leaked
               /\ IF ~Truthy(held.decrypted) /\ h.decoy # NoBlob
                  THEN EnterDecoy(rest, held)
                  ELSE UnlockTail(rest, held, TRUE)

\* unlock handler h resumed in the decoy block, lines 567-572
UnlockDecoy(h) ==
    /\ UNCHANGED uiVars
    /\ Ready
    /\ UNCHANGED usedNonces
    /\ h \in InFlight
    /\ h.pc = "decoy"
    /\ store' = UnlockStore(store)
    /\ UNCHANGED <<masterPwd, save, nextSalt, ivCtr, bioVars>>
    /\ LET rest == att (-) SetToBag({h}) IN
       IF DecryptThrows(h.decoy, h.key)
       THEN /\ leaked' = Min(leaked + 1, MaxLeaked)
            /\ UNCHANGED <<sessionKey, isDecoyMode, origin>>
            /\ UnlockTail(rest, h, FALSE)
       ELSE LET held == [h EXCEPT !.decrypted = Decrypt(h.decoy, h.key)]
            IN /\ sessionKey' = h.key
               /\ isDecoyMode' = TRUE
               /\ origin' = "decoy"
               /\ leaked' = IF sessionKey # NoKey THEN Min(leaked + 1, MaxLeaked) ELSE leaked
               /\ UnlockTail(rest, held, TRUE)

(* ------------------------------ biometrics ----------------------------- *)
\* what the platform authenticator answers to a credential request
PlatformOutcomes == {"pass", "reject"}

\* bio-register-btn: registerBiometrics; the platform creates credential cred or refuses
registerBiometrics(cred, outcome) ==
    /\ UNCHANGED uiVars
    /\ Ready
    /\ UNCHANGED usedNonces
    /\ UNCHANGED <<sessionKey, vault, isDecoyMode, origin, view, masterPwd,
                   att, save, nextSalt, ivCtr, leaked, alertFor, bioVars>>
    /\ IF sessionKey = NoKey
       THEN alertMsg' = MsgBioUnlockFirst /\ UNCHANGED store
       ELSE IF masterPwd = ""
       THEN alertMsg' = MsgBioNoPwd /\ UNCHANGED store
       ELSE IF outcome = "reject"
       THEN alertMsg' = MsgBioRegFailed /\ UNCHANGED store
       ELSE /\ store' = [store EXCEPT
                            !.bio_credential_id = cred,
                            !.bio_wrapped_password =
                                encryptPassword(masterPwd, deriveWrappingKey(cred)),
                            !.bio_registered = TRUE]
            /\ alertMsg' = MsgBioRegistered

\* a biometricUnlock without the two early returns
RegistrationAlwaysPresent(s) == FALSE

\* biometricUnlock, lines 441-450: the two early returns
RegistrationMissing(s) == s.bio_credential_id = NoCred \/ s.bio_wrapped_password = NoWrap

\* bio-btn: biometricUnlock up to the await of navigator.credentials.get
\* (the platform serves one credential request at a time)
BioUnlockStart ==
    /\ UNCHANGED uiVars
    /\ Ready
    /\ UNCHANGED usedNonces
    /\ view = "auth"
    /\ bio.pc = "idle"
    /\ UNCHANGED <<store, sessionKey, vault, isDecoyMode, origin, view, masterPwd,
                   att, save, nextSalt, ivCtr, leaked, alertFor, pwdTimer>>
    /\ IF RegistrationMissing(store)
       THEN /\ alertMsg' = IF store.bio_credential_id = NoCred THEN MsgNoPasskey
                                                                ELSE MsgLegacyBio
            /\ UNCHANGED bio
       ELSE /\ bio' = [pc |-> "asserting", id |-> store.bio_credential_id,
                       wrapped |-> store.bio_wrapped_password]
            /\ alertMsg' = ""

\* a handler that goes on whatever the platform answered
AssertionIgnored(outcome) == FALSE

\* lines 455-464: await navigator.credentials.get throws when the assertion is
\* rejected or cancelled
AssertionFailed(outcome) == outcome = "reject"

\* biometricUnlock resumed, lines 466-482: the assertion passed or was rejected;
\* on a pass it unwraps the password, fills master-pwd, clicks unlock-btn and
\* arms the timer that clears the input
BioUnlockResume(outcome) ==
    /\ UNCHANGED uiVars
    /\ Ready
    /\ bio.pc = "asserting"
    /\ bio' = IdleBio
    /\ LET wrappingKey == deriveWrappingKey(bio.id) IN
       IF AssertionFailed(outcome) \/ decryptPasswordThrows(bio.wrapped, wrappingKey)
       THEN /\ alertMsg' = MsgBioFailed
            /\ UNCHANGED <<store, sessionKey, vault, isDecoyMode, origin, view, masterPwd,
                           att, save, nextSalt, ivCtr, leaked, alertFor, pwdTimer,
                           usedNonces>>
       ELSE /\ masterPwd' = decryptPassword(bio.wrapped, wrappingKey)
            /\ UnlockHandlerStart(decryptPassword(bio.wrapped, wrappingKey))
            /\ pwdTimer' = TRUE

\* the timer of biometricUnlock fires: pwdInput.value = ''
ClearPwdTimer ==
    /\ UNCHANGED uiVars
    /\ Ready
    /\ UNCHANGED usedNonces
    /\ pwdTimer
    /\ pwdTimer' = FALSE
    /\ masterPwd' = ""
    /\ alertMsg' = ""
    /\ UNCHANGED <<store, sessionKey, vault, isDecoyMode, origin, view,
                   att, save, nextSalt, ivCtr, leaked, alertFor, bio>>

(* ------------------------------ vault view ----------------------------- *)
\* index of the first entry with this id, 0 when there is none (findIndex)
FindIndex(entries, id) ==
    IF \E i \in 1..Len(entries) : entries[i].id = id
    THEN CHOOSE i \in 1..Len(entries) :
            entries[i].id = id /\ \A j \in 1..(i - 1) : entries[j].id # id
    ELSE 0

\* a handler that records the previous password and keeps every one
SavedEntryKeepsAll(old, entry) ==
    [entry EXCEPT !.history = <<old.password>> \o old.history]

\* line 659: the element the handler puts in the place of the edited entry
SavedEntry(old, entry) == entry

\* an entry-saved handler that also re-encrypts and stores the vault
EntrySavedAutosave ==
    [store EXCEPT !.encrypted_vault = Encrypt(JsonStringify(vault), sessionKey, DrawIv)]

\* lines 653-667: the entry-saved handler makes no localStorage call
EntrySavedStore == store

\* entry-saved event
EntrySavedHandler(entry, isEdit) ==
    /\ Ready
    /\ UNCHANGED usedNonces
    /\ view = "vault"
    /\ IF isEdit
       THEN LET idx == FindIndex(vault, entry.id)
            IN vault' = IF idx # 0
                        THEN [vault EXCEPT ![idx] = SavedEntry(vault[idx], entry)]
                        ELSE vault
       ELSE vault' = Append(vault, entry)
    /\ alertMsg' = ""
    /\ store' = EntrySavedStore
    /\ UNCHANGED <<sessionKey, isDecoyMode, origin, view, masterPwd,
                   att, save, nextSalt, ivCtr, leaked, alertFor, bioVars>>

\* an entry-saved event dispatched on the document
EntrySaved(entry, isEdit) ==
    /\ UNCHANGED uiVars
    /\ ~isEdit => Len(vault) < MaxEntries
    /\ EntrySavedHandler(entry, isEdit)

\* save-vault event, lines 669-671: up to the await of CryptoEngine.encrypt
SaveVault ==
    /\ UNCHANGED uiVars
    /\ Ready
    /\ view = "vault"
    /\ save.pc = "idle"
    /\ alertMsg' = ""
    /\ IF sessionKey = NoKey
       THEN UNCHANGED <<store, sessionKey, vault, isDecoyMode, origin, view, masterPwd,
                        att, save, nextSalt, ivCtr, leaked, alertFor, bioVars, usedNonces>>
       ELSE /\ ivCtr <= MaxIv
            /\ save' = [pc |-> "encrypted",
                        blob |-> Encrypt(JsonStringify(vault), sessionKey, DrawIv),
                        keyOrigin |-> origin]
            /\ usedNonces' = usedNonces (+) SetToBag({<<sessionKey, DrawIv>>})
            /\ ivCtr' = ivCtr + 1
            /\ UNCHANGED <<store, sessionKey, vault, isDecoyMode, origin, view,
                           masterPwd, att, nextSalt, leaked, alertFor, bioVars>>

\* a save that ignores the decoy flag
StorageKeyAlwaysPrimary == "encrypted_vault"

\* line 672: const storageKey = isDecoyMode ? 'decoy_vault' : 'encrypted_vault'
StorageKey == IF isDecoyMode THEN "decoy_vault" ELSE "encrypted_vault"

\* save-vault resumed, lines 672-677: picks the slot from isDecoyMode and stores
SaveStore ==
    /\ UNCHANGED uiVars
    /\ Ready
    /\ UNCHANGED usedNonces
    /\ save.pc = "encrypted"
    /\ store' = [store EXCEPT ![StorageKey] = save.blob]
    /\ save' = IdleSave
    /\ alertMsg' = MsgSaved
    /\ UNCHANGED <<sessionKey, vault, isDecoyMode, origin, view, masterPwd,
                   att, nextSalt, ivCtr, leaked, alertFor, bioVars>>

\* lock-vault event: location.reload()
LockVault ==
    /\ Ready
    /\ UNCHANGED usedNonces
    /\ view = "vault"
    /\ Reload
    /\ alertMsg' = ""
    /\ UNCHANGED <<store, nextSalt, ivCtr, nextUuid, b32, badge>>

\* the engine finalises CryptoBridge objects nothing references any more
Finalize ==
    /\ UNCHANGED uiVars
    /\ Ready
    /\ UNCHANGED usedNonces
    /\ leaked > 0
    /\ leaked' = 0
    /\ alertMsg' = ""
    /\ UNCHANGED <<store, sessionKey, vault, isDecoyMode, origin, view, masterPwd,
                   att, save, nextSalt, ivCtr, alertFor, bioVars>>

\* someone with access to localStorage alters a byte of the ciphertext or iv of a slot
TamperStore(slot) ==
    /\ UNCHANGED uiVars
    /\ Ready
    /\ store[slot] # NoBlob
    /\ store[slot].intact
    /\ store' = [store EXCEPT ![slot].intact = FALSE]
    /\ alertMsg' = ""
    /\ UNCHANGED <<sessionKey, vault, isDecoyMode, origin, view, masterPwd,
                   att, save, nextSalt, ivCtr, leaked, alertFor, bioVars, usedNonces>>

(* ------------------------------ entry modal ---------------------------- *)
\* the variables of the controller, which the modal's own steps leave alone
appVars == <<store, sessionKey, vault, isDecoyMode, origin, view, masterPwd,
             att, save, nextSalt, ivCtr, leaked, alertMsg, alertFor, bio, pwdTimer,
             usedNonces>>

\* what the user leaves in the inputs of the modal before clicking add-btn:
\* a good form, and forms that differ from it in one input
GoodForm == [title |-> "t", username |-> "", password |-> "x", totp |-> <<>>]
FormInputs ==
    { [GoodForm EXCEPT !.title = t] : t \in {"", "t", BlankString, XssString} }
    \cup { [GoodForm EXCEPT !.username = InjectionString] }
    \cup { [GoodForm EXCEPT !.password = pw] : pw \in {"", "y", XssString} }
    \cup { [GoodForm EXCEPT !.totp = tt] :
              tt \in { [i \in 1..16 |-> "a"], <<"1", "2", "3", "4", "5">> } }

\* new-entry event: openModal() in create mode, lines 132-171
OpenModalNew ==
    /\ Ready
    /\ view = "vault"
    /\ ~modal.open
    /\ modal' = [open |-> TRUE, editingEntry |-> NoEntryId, form |-> EmptyForm]
    /\ toast' = ""
    /\ breach' = "none"
    /\ UNCHANGED <<appVars, pend, nextUuid, b32, badge>>

\* edit-entry event for the i-th entry: openModal(entry) in edit mode
OpenModalEdit(i) ==
    /\ Ready
    /\ view = "vault"
    /\ ~modal.open
    /\ i \in 1..Len(vault)
    /\ modal' = [open |-> TRUE, editingEntry |-> vault[i].id,
                 form |-> [EmptyForm EXCEPT !.title = vault[i].title,
                                            !.password = vault[i].password]]
    /\ toast' = ""
    /\ breach' = "none"
    /\ UNCHANGED <<appVars, pend, nextUuid, b32, badge>>

\* modal-cancel-btn: closeModal, lines 176-185; the inputs keep their values
CancelModal ==
    /\ Ready
    /\ modal.open
    /\ modal' = [modal EXCEPT !.open = FALSE, !.editingEntry = NoEntryId]
    /\ toast' = ""
    /\ breach' = "none"
    /\ UNCHANGED <<appVars, pend, nextUuid, b32, badge>>

\* the user edits the inputs of the open modal
TypeForm(f) ==
    /\ Ready
    /\ modal.open
    /\ modal.form # f
    /\ modal' = [modal EXCEPT !.form = f]
    /\ toast' = ""
    /\ breach' = "none"
    /\ UNCHANGED <<appVars, pend, nextUuid, b32, badge>>

MsgRequired == "Service name and Password are required."
MsgSecurityError == "Security Error"
MsgPwdXss == "Password contains potentially malicious content. Please use a different password."
MsgInvalid2FA == "Invalid 2FA Secret"

\* add-btn: handleSaveEntry up to the await of checkPasswordBreach, lines 190-249;
\* confirmDup is the user's answer to the password-reuse confirm()
handleSaveEntryStart(confirmDup) ==
    /\ Ready
    /\ view = "vault"
    /\ modal.open
    /\ BagCardinality(pend) < MaxPending
    /\ breach' = "none"
    /\ UNCHANGED <<appVars, modal, nextUuid, b32, badge>>
    /\ LET f == modal.form
           totpSecret == ToUpperCase(RemoveWhitespace(f.totp))
       IN IF f.title = "" \/ f.password = ""
          THEN toast' = MsgRequired /\ UNCHANGED pend
          ELSE IF validateAndSanitizeThrows(f.title) \/ validateAndSanitizeThrows(f.username)
          THEN toast' = MsgSecurityError /\ UNCHANGED pend
          ELSE IF detectXSS(f.password)
          THEN toast' = MsgPwdXss /\ UNCHANGED pend
          ELSE IF totpSecret # <<>> /\ validateBase32(totpSecret) # "valid"
          THEN toast' = MsgInvalid2FA /\ UNCHANGED pend
          ELSE IF findDuplicatePasswords(vault, f.password, modal.editingEntry) # <<>>
                  /\ ~confirmDup
          THEN toast' = "" /\ UNCHANGED pend
          ELSE /\ pend' = pend (+) SetToBag({[title |-> validateAndSanitize(f.title)]})
               /\ toast' = ""

\* what the breach lookup answers: no match, matches, or no usable answer
BreachOutcomes == {"clean", "breached", "unknown"}

\* a lookup that rejects when the network fails
BreachCheckRejects(outcome) == outcome = "unknown"

\* checkPasswordBreach returns a count, or "unknown" on a network failure: it does not throw
BreachCheckThrows(outcome) == FALSE

\* line 250: breachCount > 0
BreachFound(outcome) == outcome = "breached"

\* a randomUUID that returns the same id every time
UuidRepeated(n) == "u1"

\* crypto.randomUUID(), taken as never returned before
Uuid(n) == <<"u1", "u2", "u3", "u4">>[n]

\* handleSaveEntry resumed after checkPasswordBreach, lines 249-298: builds
\* entryData from the sanitised title of the click and from editingEntry and
\* new-password as they are now, dispatches entry-saved, clears and closes
handleSaveEntryResume(h, outcome, confirmBreach) ==
    /\ Ready
    /\ h \in BagToSet(pend)
    /\ pend' = pend (-) SetToBag({h})
    /\ breach' = outcome
    /\ UNCHANGED <<b32, badge>>
    /\ IF BreachCheckThrows(outcome)
       THEN /\ toast' = MsgSecurityError
            /\ UNCHANGED <<appVars, modal, nextUuid>>
       ELSE IF BreachFound(outcome) /\ ~confirmBreach
       THEN toast' = "" /\ UNCHANGED <<appVars, modal, nextUuid>>
       ELSE LET isEdit == modal.editingEntry # NoEntryId
                entryData == [id |-> IF isEdit THEN modal.editingEntry ELSE Uuid(nextUuid),
                              title |-> h.title,
                              password |-> modal.form.password,
                              history |-> <<>>]
            IN /\ ~isEdit => nextUuid <= MaxCreated
               /\ nextUuid' = IF isEdit THEN nextUuid ELSE nextUuid + 1
               /\ EntrySavedHandler(entryData, isEdit)
               /\ modal' = ClosedModal
               /\ toast' = ""

(* ------------------------------ specification -------------------------- *)
Next ==
    \/ \E p1 \in SetupPwds, p2 \in ConfirmPwds : handleFinishSetup(p1, p2)
    \/ \E d \in DuressPwds : setupDuress(d)
    \/ \E f \in BackupFiles : importBackup(f)
    \/ \E p \in Passwords \cup {""} : UnlockClick(p)
    \/ \E h \in InFlight : UnlockReal(h)
    \/ \E h \in InFlight : UnlockDecoy(h)
    \/ \E e \in Entries, isEdit \in BOOLEAN : EntrySaved(e, isEdit)
    \/ SaveVault
    \/ SaveStore
    \/ LockVault
    \/ Finalize
    \/ DismissAlert

Spec == Init /\ [][Next]_vars

\* the password flows together with the biometric handlers
NextBio ==
    \/ \E p1 \in SetupPwds, p2 \in ConfirmPwds : handleFinishSetup(p1, p2)
    \/ \E d \in DuressPwds : setupDuress(d)
    \/ \E p \in Passwords \cup {""} : UnlockClick(p)
    \/ \E h \in InFlight : UnlockReal(h)
    \/ \E h \in InFlight : UnlockDecoy(h)
    \/ SaveVault
    \/ SaveStore
    \/ LockVault
    \/ DismissAlert
    \/ \E c \in CredIds, o \in PlatformOutcomes : registerBiometrics(c, o)
    \/ BioUnlockStart
    \/ \E o \in PlatformOutcomes : BioUnlockResume(o)
    \/ ClearPwdTimer

SpecBio == Init /\ [][NextBio]_vars

\* the password flows with stored blobs that may be altered behind the program's back
NextTamper ==
    \/ \E p1 \in SetupPwds, p2 \in ConfirmPwds : handleFinishSetup(p1, p2)
    \/ \E d \in DuressPwds : setupDuress(d)
    \/ \E p \in Passwords \cup {""} : UnlockClick(p)
    \/ \E h \in InFlight : UnlockReal(h)
    \/ \E h \in InFlight : UnlockDecoy(h)
    \/ \E e \in Entries, isEdit \in BOOLEAN : EntrySaved(e, isEdit)
    \/ SaveVault
    \/ SaveStore
    \/ LockVault
    \/ DismissAlert
    \/ \E slot \in {"encrypted_vault", "decoy_vault"} : TamperStore(slot)

SpecTamper == Init /\ [][NextTamper]_vars

\* editing entries of vaults that were set up here or restored from a backup
NextEdit ==
    \/ \E p1 \in SetupPwds, p2 \in ConfirmPwds : handleFinishSetup(p1, p2)
    \/ \E f \in BackupFiles \cup HistoryBackupFiles : importBackup(f)
    \/ \E p \in Passwords \cup {""} : UnlockClick(p)
    \/ \E h \in InFlight : UnlockReal(h)
    \/ \E e \in Entries, isEdit \in BOOLEAN : EntrySaved(e, isEdit)
    \/ SaveVault
    \/ SaveStore
    \/ LockVault
    \/ DismissAlert

SpecEdit == Init /\ [][NextEdit]_vars

\* entries created and edited through the entry modal of an unlocked vault
NextModal ==
    \/ handleFinishSetup("pwA", "pwA")
    \/ UnlockClick("pwA")
    \/ \E h \in InFlight : UnlockReal(h)
    \/ DismissAlert
    \/ OpenModalNew
    \/ \E i \in 1..Len(vault) : OpenModalEdit(i)
    \/ CancelModal
    \/ \E f \in FormInputs : TypeForm(f)
    \/ \E c \in BOOLEAN : handleSaveEntryStart(c)
    \/ \E h \in BagToSet(pend), o \in BreachOutcomes, c \in BOOLEAN :
          handleSaveEntryResume(h, o, c)

SpecModal == Init /\ [][NextModal]_vars

\* a backup restored over a store that holds a decoy slot and a passkey registration
NextRestore ==
    \/ \E d \in DuressPwds : setupDuress(d)
    \/ \E p \in Passwords : UnlockClick(p)
    \/ \E h \in InFlight : UnlockReal(h)
    \/ \E h \in InFlight : UnlockDecoy(h)
    \/ \E c \in CredIds, o \in PlatformOutcomes : registerBiometrics(c, o)
    \/ \E f \in BackupFiles : importBackup(f)
    \/ LockVault
    \/ DismissAlert

SpecRestore == Init /\ [][NextRestore]_vars

TypeOK ==
    /\ view \in {"auth", "vault"}
    /\ origin \in {"none", "primary", "decoy"}
    /\ isDecoyMode \in BOOLEAN
    /\ leaked \in 0..MaxLeaked
    /\ IsABag(att)
    /\ BagCardinality(att) <= MaxAttempts
    /\ \A h \in InFlight : h.pc \in {"real", "decoy"}
    /\ modal.open \in BOOLEAN
    /\ IsABag(pend)
    /\ BagCardinality(pend) <= MaxPending
    /\ toast \in {"", MsgRequired, MsgSecurityError, MsgPwdXss, MsgInvalid2FA}
    /\ nextUuid \in 1..(MaxCreated + 1)
    /\ breach \in BreachOutcomes \cup {"none"}
    /\ b32.verdict \in {"none", "pending", "empty", "format", "padding", "short", "valid"}
    /\ badge.label \in {"none", "pending", "Weak", "Strong"}
    /\ badge.entropy \in Nat


(* ------------------------------ validators ----------------------------- *)
Rep(c, n) == [i \in 1..n |-> c]

\* TOTP secrets typed by the user: an optional leading blank, a run of one
\* character, an optional blank, a run of '=', and an optional last character
Base32Inputs ==
    { lead \o Rep(c, n) \o mid \o Rep("=", k) \o tail :
        lead \in {<<>>, <<" ">>}, c \in {"A", "2", "a"},
        n \in {0, 1, 9, 10, 12, 13, 15, 16, 32},
        mid \in {<<>>, <<"\t">>}, k \in 0..7,
        tail \in {<<>>, <<"A">>, <<" ">>} }
    \cup { <<"1", "2", "3", "4", "5">> }

\* a secret is handed to validateBase32
ValidateBase32 ==
    /\ b32.verdict = "pending"
    /\ b32' = [b32 EXCEPT !.verdict = validateBase32(b32.input)]
    /\ UNCHANGED <<store, sessionKey, vault, isDecoyMode, origin, view, masterPwd,
                   att, save, nextSalt, ivCtr, leaked, alertMsg, alertFor, bioVars,
                   usedNonces, modal, pend, toast, nextUuid, breach, badge>>

InitBase32 ==
    /\ InitApp
    /\ b32 \in { [input |-> s, verdict |-> "pending"] : s \in Base32Inputs }
    /\ badge = NoBadge

NextBase32 == ValidateBase32

SpecBase32 == InitBase32 /\ [][NextBase32]_vars

(* ------------------------------ vault table ---------------------------- *)
\* VaultTable.render, lines 56-57: the threshold of the strength label, in bits
WeakBelow == 60

\* entropy estimates are kept in hundredths of a bit
Hundredths(bits) == bits * 100

\* a label that counts the threshold itself as weak
StrengthLabelInclusive(entropy) ==
    IF entropy <= Hundredths(WeakBelow) THEN "Weak" ELSE "Strong"

\* lines 56-57: entropy < 60 ? 'Weak' : 'Strong'
StrengthLabel(entropy) ==
    IF entropy < Hundredths(WeakBelow) THEN "Weak" ELSE "Strong"

\* the estimates calculateEntropy hands to the row: 0 to 128 bits in quarters of a bit
EntropyInputs == { 25 * k : k \in 0..512 }

\* VaultTable.render builds the row of an entry
RenderRow ==
    /\ badge.label = "pending"
    /\ badge' = [badge EXCEPT !.label = StrengthLabel(badge.entropy)]
    /\ UNCHANGED <<appVars, modal, pend, toast, nextUuid, breach, b32>>

InitTable ==
    /\ InitApp
    /\ b32 = NoProbe
    /\ badge \in { [entropy |-> e, label |-> "pending"] : e \in EntropyInputs }

NextTable == RenderRow

SpecTable == InitTable /\ [][NextTable]_vars

(* ------------------------------ properties ----------------------------- *)
\* the slot is stored and sealed under the key of pw and the slot's stored salt
PrimaryUnder(pw) ==
    /\ store.encrypted_vault # NoBlob
    /\ store.encrypted_vault.key = DeriveKey(pw, store.vault_salt)

DecoyUnder(pw) ==
    /\ store.decoy_vault # NoBlob
    /\ store.decoy_vault.key = DeriveKey(pw, store.decoy_salt)

\* the handler read the blobs that are stored now
ReadCurrent(h) == h.real = store.encrypted_vault /\ h.decoy = store.decoy_vault

\* the handler returns in this step
Returns(h) == att' = att (-) SetToBag({h})

\* C1: the step of save-vault that stores writes the blob it encrypted to the
\* slot the session key came from and leaves the other slot as it was: a save
\* in a decoy session does not touch encrypted_vault, a save in a primary
\* session does not touch decoy_vault.
C1_SaveWritesOriginSlot ==
    [][ SaveStore =>
          /\ origin \in {"primary", "decoy"}
          /\ origin = "decoy" =>
                /\ store'.encrypted_vault = store.encrypted_vault
                /\ store'.decoy_vault = save.blob
          /\ origin = "primary" =>
                /\ store'.decoy_vault = store.decoy_vault
                /\ store'.encrypted_vault = save.blob
          /\ store'.vault_salt = store.vault_salt
          /\ store'.decoy_salt = store.decoy_salt ]_vars

\* a save has just stored the vault of a decoy session while a primary slot exists
C1_Witness ==
    /\ alertMsg = MsgSaved
    /\ origin = "decoy"
    /\ store.encrypted_vault # NoBlob
    /\ store.decoy_vault.key = sessionKey
    /\ store.decoy_vault.pt = JsonStringify(vault)
    /\ store.decoy_vault.iv > store.encrypted_vault.iv

\* C2: with the primary slot under password A and the decoy slot under a
\* different password B, the handler of an attempt with A, resumed after the
\* primary decryption, ends unlocked on the primary slot: session key derived
\* from A and vault_salt, decoy flag false, vault equal to the slot's contents,
\* vault view shown, no denial.
C2_UnlockWithPrimaryPassword ==
    [][ \A h \in InFlight : \A B \in Passwords :
          ( /\ UnlockReal(h)
            /\ ReadCurrent(h)
            /\ PrimaryUnder(h.pwd)
            /\ DecoyUnder(B)
            /\ B # h.pwd
            /\ ~JsonParseThrows(store.encrypted_vault.pt) )
          => /\ sessionKey' = DeriveKey(h.pwd, store.vault_salt)
             /\ isDecoyMode' = FALSE
             /\ origin' = "primary"
             /\ vault' = JsonParse(store.encrypted_vault.pt)
             /\ view' = "vault"
             /\ alertMsg' = ""
             /\ Returns(h) ]_vars

\* unlocked with pwA on the primary slot while the decoy slot is under pwB
C2_Witness ==
    /\ view = "vault"
    /\ masterPwd = "pwA"
    /\ PrimaryUnder("pwA")
    /\ DecoyUnder("pwB")
    /\ sessionKey = DeriveKey("pwA", store.vault_salt)
    /\ origin = "primary"
    /\ ~isDecoyMode
    /\ vault = JsonParse(store.encrypted_vault.pt)

\* C3: with the primary slot under A and the decoy slot under a different
\* password B, the handler of an attempt with B, resumed after the decoy
\* decryption, ends unlocked on the decoy slot: session key derived from B and
\* decoy_salt, decoy flag true (so that saves pick decoy_vault), vault equal to
\* the decoy slot's contents, vault view shown.
C3_UnlockWithDecoyPassword ==
    [][ \A h \in InFlight : \A A \in Passwords :
          ( /\ UnlockDecoy(h)
            /\ ReadCurrent(h)
            /\ DecoyUnder(h.pwd)
            /\ PrimaryUnder(A)
            /\ A # h.pwd
            /\ ~JsonParseThrows(store.decoy_vault.pt) )
          => /\ sessionKey' = DeriveKey(h.pwd, store.decoy_salt)
             /\ isDecoyMode' = TRUE
             /\ origin' = "decoy"
             /\ StorageKey' = "decoy_vault"
             /\ vault' = JsonParse(store.decoy_vault.pt)
             /\ view' = "vault"
             /\ alertMsg' = ""
             /\ Returns(h) ]_vars

\* unlocked with pwB on the decoy slot while the primary slot is under pwA
C3_Witness ==
    /\ view = "vault"
    /\ masterPwd = "pwB"
    /\ PrimaryUnder("pwA")
    /\ DecoyUnder("pwB")
    /\ sessionKey = DeriveKey("pwB", store.decoy_salt)
    /\ origin = "decoy"
    /\ isDecoyMode
    /\ vault = <<DecoyEntry>>

\* C4: a handler that found at least one slot stored and whose password sealed
\* neither blob never assigns the session key, the decoy flag or the vault and
\* never shows the vault view, in any of its steps, and when it returns it
\* shows the denial.
C4_WrongPasswordDenied ==
    [][ \A h \in InFlight :
          ( /\ UnlockReal(h) \/ UnlockDecoy(h)
            /\ SlotsRead(h) # "neither"
            /\ WrongForAll(h) )
          => /\ UNCHANGED <<sessionKey, isDecoyMode, origin, vault, view>>
             /\ Returns(h) => alertMsg' = MsgDenied
             /\ ~Returns(h) => alertMsg' = "" /\ h.pc = "real" /\ h.decoy # NoBlob ]_vars

\* a password wrong for both stored slots has just been denied, nothing unlocked
C4_Witness ==
    /\ alertMsg = MsgDenied
    /\ alertFor.wrong
    /\ alertFor.slots = "both"
    /\ masterPwd = "pwC"
    /\ sessionKey = NoKey
    /\ view = "auth"
    /\ vault = <<>>

\* C5: while neither slot is stored, a click on unlock with a non-empty
\* password does not show the vault view.
C5_FirstRunRefused ==
    [][ \A p \in Passwords :
          ( /\ UnlockClick(p)
            /\ store.encrypted_vault = NoBlob
            /\ store.decoy_vault = NoBlob )
          => view' = "auth" ]_vars

\* C6: a handler step in which a blob decrypts to text that is not a vault
\* leaves the session key and the decoy flag as they were, and when the handler
\* returns in that step it shows the same denial as for a wrong password.
C6_MalformedVaultDenied ==
    [][ \A h \in InFlight :
          ( \/ /\ UnlockReal(h)
               /\ ~DecryptThrows(h.real, h.key)
               /\ JsonParseThrows(Decrypt(h.real, h.key))
            \/ /\ UnlockDecoy(h)
               /\ ~DecryptThrows(h.decoy, h.key)
               /\ JsonParseThrows(Decrypt(h.decoy, h.key)) )
          => /\ UNCHANGED <<sessionKey, isDecoyMode>>
             /\ Returns(h) => alertMsg' = MsgDenied ]_vars

\* C7: the dialog of a wrong-password denial is the same whichever slots the
\* handler found stored (primary only, primary and decoy, decoy only): the one
\* message MsgDenied, reported by a step that assigned no session state.
C7_DenialIndependentOfCause ==
    (alertFor.wrong /\ alertFor.slots \in {"primaryOnly", "both", "decoyOnly"})
        => /\ alertMsg = MsgDenied
           /\ ~alertFor.keySet

\* a denial for a password wrong for both slots is on screen, and so could be
\* one for the primary slot alone
C7_Witness ==
    /\ alertFor.wrong
    /\ alertFor.slots = "both"
    /\ alertMsg = MsgDenied
    /\ \E h \in InFlight : WrongForAll(h) /\ SlotsRead(h) = "primaryOnly"

\* C8: while a session is open (vault view shown, session key held) no step
\* changes the session key or its origin except one that clears the key.
C8_SessionKeyStable ==
    [][ (view = "vault" /\ sessionKey # NoKey)
          => \/ sessionKey' = sessionKey /\ origin' = origin
             \/ sessionKey' = NoKey ]_vars

\* C9: at most one unlock handler is suspended at any time.
C9_OneAttemptInFlight == BagCardinality(att) <= 1

\* C10: no derived key outlives its use unwiped: every key is either the
\* session key, the key of a handler still running, or wiped.
C10_NoStrayKeys == leaked = 0

C12_MasterSecretWiped ==
    [][ \A h \in InFlight :
          ((UnlockReal(h) \/ UnlockDecoy(h)) /\ Returns(h)) => masterPwd' = "" ]_vars

\* C20: biometricUnlock with no credential id or no wrapped password stored
\* alerts and returns at once: no platform assertion is requested, no unwrap
\* and no unlock attempt is started, and neither the store nor the session
\* state changes.
C20_NoRegistrationFailsEarly ==
    [][ ( /\ BioUnlockStart
          /\ store.bio_credential_id = NoCred \/ store.bio_wrapped_password = NoWrap )
        => /\ alertMsg' \in {MsgNoPasskey, MsgLegacyBio}
           /\ bio'.pc = "idle"
           /\ UNCHANGED <<store, sessionKey, vault, isDecoyMode, origin, view,
                          masterPwd, att, pwdTimer>> ]_vars

\* biometricUnlock has just refused for want of a passkey, with a vault set up
C20_Witness ==
    /\ alertMsg = MsgNoPasskey
    /\ store.bio_credential_id = NoCred
    /\ store.encrypted_vault # NoBlob
    /\ bio.pc = "idle"
    /\ att = EmptyBag

\* C13: while a slot exists its salt keeps the value it was first given, and
\* the primary and decoy salts differ.
C13_SaltsStable ==
    [][ /\ (store.encrypted_vault # NoBlob /\ store'.encrypted_vault # NoBlob)
              => store'.vault_salt = store.vault_salt
        /\ (store.decoy_vault # NoBlob /\ store'.decoy_vault # NoBlob)
              => store'.decoy_salt = store.decoy_salt
        /\ (store'.vault_salt # NoSalt /\ store'.decoy_salt # NoSalt)
              => store'.vault_salt # store'.decoy_salt ]_vars

\* C14: no (key, iv) pair is used by more than one encryption of setup,
\* setupDuress and save.
C14_NoncesUnique == \A n \in BagToSet(usedNonces) : CopiesIn(n, usedNonces) = 1

\* two encryptions have sealed under the same key, with different ivs
C14_Witness ==
    \E n1, n2 \in BagToSet(usedNonces) : n1[1] = n2[1] /\ n1[2] # n2[2]

\* C15: a handler step that decrypts a slot whose stored ciphertext or iv was
\* altered, with the key the slot was sealed under, fails for that slot: it
\* sets no session key and no decoy flag, loads nothing into the vault and does
\* not show the vault view.
C15_TamperFailsClosed ==
    [][ \A h \in InFlight :
          ( \/ UnlockReal(h) /\ ~h.real.intact /\ h.real.key = h.key
            \/ UnlockDecoy(h) /\ ~h.decoy.intact /\ h.decoy.key = h.key )
          => UNCHANGED <<sessionKey, isDecoyMode, origin, vault, view>> ]_vars

\* the right password has just been denied on an altered primary slot
C15_Witness ==
    /\ alertMsg = MsgDenied
    /\ ~alertFor.wrong
    /\ alertFor.slots = "primaryOnly"
    /\ ~store.encrypted_vault.intact
    /\ store.encrypted_vault.key = DeriveKey(masterPwd, store.vault_salt)
    /\ sessionKey = NoKey
    /\ vault = <<>>
    /\ view = "auth"

\* C16: a blob that a session opened with password p has saved is opened
\* again by p: from the locked state, the handler of an attempt with p that
\* comes to decrypt the slot holding that blob opens this slot, and the vault
\* is the one the blob was sealed from.
C16_SaveRoundTrip ==
    [][ \A h \in InFlight :
          /\ ( /\ UnlockReal(h)
               /\ sessionKey = NoKey /\ view = "auth" /\ ReadCurrent(h)
               /\ h.real.key.pwd = h.pwd
               /\ ~JsonParseThrows(h.real.pt) )
             => /\ origin' = "primary"
                /\ sessionKey' = h.real.key
                /\ vault' = JsonParse(h.real.pt)
                /\ view' = "vault"
          /\ ( /\ UnlockDecoy(h)
               /\ sessionKey = NoKey /\ view = "auth" /\ ReadCurrent(h)
               /\ h.decoy.key.pwd = h.pwd
               /\ ~JsonParseThrows(h.decoy.pt) )
             => /\ origin' = "decoy"
                /\ sessionKey' = h.decoy.key
                /\ vault' = JsonParse(h.decoy.pt)
                /\ view' = "vault" ]_vars

\* the first HistoryLimit elements
Truncate(hist) == SubSeq(hist, 1, Min(Len(hist), HistoryLimit))

\* C17: no entry of the in-memory vault has a history of more than 5 elements.
C17_HistoryBounded == \A i \in 1..Len(vault) : Len(vault[i].history) <= HistoryLimit

\* an entry loaded with a full history has been edited to a new password
C17_Witness ==
    /\ view = "vault"
    /\ sessionKey = store.encrypted_vault.key
    /\ origin = "primary"
    /\ store.encrypted_vault.pt.kind = "json"
    /\ Len(store.encrypted_vault.pt.entries) = 1
    /\ Len(store.encrypted_vault.pt.entries[1].history) = HistoryLimit
    /\ Len(vault) = 1
    /\ vault[1].id = store.encrypted_vault.pt.entries[1].id
    /\ vault[1].password # store.encrypted_vault.pt.entries[1].password
    /\ vault[1].history = <<>>

\* C18: an edit whose password equals the entry's current password leaves the
\* entry's history as it was.
C18_SamePasswordKeepsHistory ==
    [][ \A e \in Entries :
          ( /\ EntrySaved(e, TRUE)
            /\ FindIndex(vault, e.id) # 0
            /\ vault[FindIndex(vault, e.id)].password = e.password )
          => vault'[FindIndex(vault, e.id)].history
                 = vault[FindIndex(vault, e.id)].history ]_vars

\* C19: an edit that changes the password sets the new password and makes the
\* history the previous password followed by the old history, cut to 5 elements.
C19_ChangePrependsHistory ==
    [][ \A e \in Entries :
          ( /\ EntrySaved(e, TRUE)
            /\ FindIndex(vault, e.id) # 0
            /\ vault[FindIndex(vault, e.id)].password # e.password )
          => /\ vault'[FindIndex(vault, e.id)].password = e.password
             /\ vault'[FindIndex(vault, e.id)].history
                    = Truncate(<<vault[FindIndex(vault, e.id)].password>>
                               \o vault[FindIndex(vault, e.id)].history) ]_vars

\* C21: biometricUnlock unwraps nothing before the platform has answered, and
\* when the assertion is rejected or cancelled the handler ends with the
\* failure alert: master-pwd is not filled, no unlock attempt is started, no
\* timer is armed and neither the store nor the session changes.
C21_AssertionBeforeUnwrap ==
    [][ /\ BioUnlockStart => UNCHANGED <<masterPwd, att, pwdTimer>>
        /\ BioUnlockResume("reject")
              => /\ alertMsg' = MsgBioFailed
                 /\ bio' = IdleBio
                 /\ UNCHANGED <<store, sessionKey, vault, isDecoyMode, origin, view,
                                masterPwd, att, pwdTimer>> ]_vars

\* a registered passkey was asked for and the assertion was rejected
C21_Witness ==
    /\ alertMsg = MsgBioFailed
    /\ store.bio_wrapped_password # NoWrap
    /\ bio = IdleBio
    /\ masterPwd = ""
    /\ att = EmptyBag
    /\ sessionKey = NoKey

\* C22: the biometric wrap round trip. A successful registerBiometrics stores a
\* pair (credential id, wrapped password) that unwraps, without throwing, to the
\* password that was in master-pwd; and a biometricUnlock whose assertion passes
\* while the stored pair is still the one it read fills master-pwd with exactly
\* that password and starts the unlock with it.
C22_WrapRoundTrip ==
    [][ /\ (/\ store'.bio_wrapped_password # store.bio_wrapped_password
            /\ store'.bio_wrapped_password # NoWrap)
              => LET k == deriveWrappingKey(store'.bio_credential_id) IN
                 /\ ~decryptPasswordThrows(store'.bio_wrapped_password, k)
                 /\ decryptPassword(store'.bio_wrapped_password, k) = masterPwd
        /\ (/\ BioUnlockResume("pass")
            /\ bio.id = store.bio_credential_id
            /\ bio.wrapped = store.bio_wrapped_password)
              => /\ masterPwd' = store.bio_wrapped_password.pt
                 /\ pwdTimer'
                 /\ alertMsg' # MsgBioFailed ]_vars

\* a locked vault whose master-pwd was filled by a passed biometric unlock with
\* the registered password, the unlock attempt being under way
C22_Witness ==
    /\ store.bio_wrapped_password # NoWrap
    /\ masterPwd = store.bio_wrapped_password.pt
    /\ masterPwd # ""
    /\ pwdTimer
    /\ bio = IdleBio
    /\ sessionKey = NoKey
    /\ \E h \in BagToSet(att) : h.pwd = masterPwd

\* C23: the slots are tried primary first. A click that finds a primary blob
\* stored starts with the primary block; a handler whose password decrypts the
\* primary blob it read takes the primary key as the session key, clears the
\* decoy flag and returns without entering the decoy block, whatever the decoy
\* blob is sealed with.
C23_PrimaryThenDecoy ==
    [][ /\ \A p \in Passwords :
             (UnlockClick(p) /\ store.encrypted_vault # NoBlob)
                => \E g \in BagToSet(att') : g.pc = "real" /\ att' = att (+) SetToBag({g})
        /\ \A h \in InFlight :
             (UnlockReal(h) /\ ~DecryptThrows(h.real, h.key))
                => /\ sessionKey' = h.key
                   /\ isDecoyMode' = FALSE
                   /\ origin' = "primary"
                   /\ Returns(h) ]_vars

\* C24: the entry-saved handler, for a new entry or an edit, changes the
\* in-memory vault only: localStorage (both blobs, both salts and every other
\* slot), the session key and a save under way are as they were; what is
\* stored still differs from the edited vault until save-vault runs.
C24_EntrySavedInMemoryOnly ==
    [][ \A entry \in Entries : \A isEdit \in BOOLEAN :
          EntrySaved(entry, isEdit)
             => UNCHANGED <<store, save, sessionKey, isDecoyMode, ivCtr, nextSalt>> ]_vars

\* a primary session whose in-memory vault holds an entry that the stored blob
\* does not, no save being under way
C24_Witness ==
    /\ view = "vault"
    /\ origin = "primary"
    /\ sessionKey = store.encrypted_vault.key
    /\ vault # <<>>
    /\ store.encrypted_vault.pt = JsonStringify(<<>>)
    /\ save = IdleSave

\* what a well-formed TOTP secret is: whitespace aside, at least 16 characters,
\* all of A-Z and 2-7 but for a last run of 0, 1, 3, 4 or 6 '='
WellFormedSecret(s) ==
    LET c == SelectSeq(s, LAMBDA ch : ch \notin Whitespace)
    IN /\ Len(c) >= 16
       /\ \E pad \in {0, 1, 3, 4, 6} :
             /\ Len(c) > pad
             /\ \A i \in 1..Len(c) :
                   IF i <= Len(c) - pad THEN c[i] \in Base32Alphabet ELSE c[i] = "="

\* C26: validateBase32 accepts a secret exactly when the secret with its
\* whitespace removed is a non-empty run of characters of A-Z and 2-7 followed
\* by 0, 1, 3, 4 or 6 '=' and is at least 16 characters long; the empty string
\* and "12345" are refused.
C26_Base32Acceptance ==
    b32.verdict \notin {"none", "pending"}
       => /\ b32.verdict = "valid" <=> WellFormedSecret(b32.input)
          /\ b32.input \in {<<>>, <<"1", "2", "3", "4", "5">>} => b32.verdict # "valid"

\* a secret of 32 characters of the alphabet was accepted
C26_Witness ==
    /\ b32.verdict = "valid"
    /\ Len(b32.input) = 32
    /\ \A i \in 1..32 : b32.input[i] \in Base32Alphabet

\* a resumed handleSaveEntry that gets as far as dispatching entry-saved
Dispatches(h, outcome, confirmBreach) ==
    /\ handleSaveEntryResume(h, outcome, confirmBreach)
    /\ modal' = ClosedModal
    /\ toast' = ""
    /\ outcome = "breached" => confirmBreach

UniqueIds(entries) ==
    \A i, j \in 1..Len(entries) : i # j => entries[i].id # entries[j].id

\* C25: through any sequence of saves from the entry modal the ids of the
\* in-memory vault stay pairwise different; a dispatched create (no
\* editingEntry) appends exactly one entry whose id no entry had, and a
\* dispatched edit leaves the number of entries, their ids and every entry
\* with another id as they were.
C25_EntryIdsUnique ==
    [][ /\ UniqueIds(vault')
        /\ \A h \in BagToSet(pend), o \in BreachOutcomes, c \in BOOLEAN :
             Dispatches(h, o, c) =>
                IF modal.editingEntry = NoEntryId
                THEN /\ Len(vault') = Len(vault) + 1
                     /\ SubSeq(vault', 1, Len(vault)) = vault
                     /\ \A i \in 1..Len(vault) : vault[i].id # vault'[Len(vault')].id
                ELSE /\ Len(vault') = Len(vault)
                     /\ \A i \in 1..Len(vault) :
                           /\ vault'[i].id = vault[i].id
                           /\ vault[i].id # modal.editingEntry => vault'[i] = vault[i]
                           /\ vault[i].id = modal.editingEntry
                                => /\ vault'[i].title = h.title
                                   /\ vault'[i].password = modal.form.password ]_vars

\* two entries made through the modal, with different ids, are in the vault
C25_Witness ==
    /\ Len(vault) = 2
    /\ vault[1].id # vault[2].id
    /\ vault[1].password = "y"
    /\ vault[2].password = "x"
    /\ vault[1].title = "t"
    /\ nextUuid = 3
    /\ ~modal.open

InvalidForm(f) ==
    \/ f.title = ""
    \/ f.password = ""
    \/ f.title \in {XssString, InjectionString}
    \/ f.username \in {XssString, InjectionString}
    \/ f.password = XssString
    \/ /\ SelectSeq(f.totp, LAMBDA ch : ch \notin Whitespace) # <<>>
       /\ ~WellFormedSecret(ToUpperCase(f.totp))

\* C28: a click on add-btn with an empty title or password, a flagged title or
\* username, a flagged password or a TOTP secret that is not well-formed Base32
\* shows an error and returns: no handler is left to dispatch entry-saved, the
\* vault is unchanged and the modal stays open with its inputs.
C28_InvalidInputNotSaved ==
    [][ \A c \in BOOLEAN :
          (handleSaveEntryStart(c) /\ InvalidForm(modal.form))
             => /\ UNCHANGED <<vault, pend, modal, store>>
                /\ modal'.open
                /\ toast' # "" ]_vars

\* a click with a flagged password was refused: the modal is open on that
\* form, nothing is pending and the vault is empty
C28_Witness ==
    /\ toast = MsgPwdXss
    /\ modal.open
    /\ modal.form.password = XssString
    /\ pend = EmptyBag
    /\ vault = <<>>
    /\ view = "vault"

\* C29: importBackup of a file that does not parse or lacks a field leaves
\* localStorage as it was; importBackup of a well-formed file leaves it holding
\* the file's blob as encrypted_vault, the file's salt as vault_salt and
\* vault_initialized, and nothing else: no decoy blob, no decoy salt, no
\* passkey registration.
C29_ImportReplacesStore ==
    [][ \A f \in BackupFiles :
          importBackup(f)
             => IF f.valid
                THEN store' = [encrypted_vault |-> f.vault, vault_salt |-> f.salt,
                               vault_initialized |-> TRUE,
                               decoy_vault |-> NoBlob, decoy_salt |-> NoSalt,
                               bio_credential_id |-> NoCred,
                               bio_wrapped_password |-> NoWrap,
                               bio_registered |-> FALSE]
                ELSE store' = store ]_vars

\* a backup was restored over the decoy slot whose session is still open: the
\* decoy blob is gone, the store holds the backup
C29_Witness ==
    /\ store.vault_initialized
    /\ store.vault_salt = BackupSalt
    /\ store.encrypted_vault.pt = JsonStringify(<<>>)
    /\ store.decoy_vault = NoBlob
    /\ store.bio_wrapped_password = NoWrap
    /\ isDecoyMode
    /\ sessionKey.salt = 1
    /\ masterPwd # ""

\* C30: setupDuress never changes the primary blob, the primary salt or any
\* other slot than decoy_vault and decoy_salt; with a cancelled prompt or a
\* password shorter than 12 characters it writes nothing, and otherwise it
\* stores a decoy blob sealed under the new decoy salt. The session is left
\* as it was in every case.
C30_DuressWritesDecoyOnly ==
    [][ \A d \in DuressPwds :
          setupDuress(d)
             => /\ \A k \in DOMAIN store \ {"decoy_vault", "decoy_salt"} : store'[k] = store[k]
                /\ (d = "" \/ PwdLen(d) < 12) => store' = store
                /\ (d # "" /\ PwdLen(d) >= 12)
                      => /\ store'.decoy_salt \notin {NoSalt, store.decoy_salt, store.vault_salt}
                         /\ store'.decoy_vault.key = DeriveKey(d, store'.decoy_salt)
                /\ UNCHANGED <<sessionKey, vault, isDecoyMode, view>> ]_vars

\* a decoy slot was set up next to a primary slot, which is still sealed under
\* the setup password and its salt
C30_Witness ==
    /\ alertMsg = MsgDuressReady
    /\ PrimaryUnder("pwA")
    /\ DecoyUnder("pwB")
    /\ store.decoy_salt # store.vault_salt
    /\ store.encrypted_vault.pt = JsonStringify(<<>>)

SlotBlob(h, slot) == IF slot = "decoy" THEN h.decoy ELSE h.real

\* C32: whenever a session key is held the decoy flag tells the slot the key
\* opened, and every step that assigns the session key is the step of an unlock
\* handler that decrypted the blob of that slot with this key and loaded the
\* vault from it, however the handlers of several clicks interleave.
C32_SessionMatchesSlot ==
    /\ [](sessionKey # NoKey => (isDecoyMode <=> origin = "decoy"))
    /\ [][ (sessionKey' # NoKey /\ <<sessionKey', origin'>> # <<sessionKey, origin>>)
             => \E h \in InFlight :
                  /\ sessionKey' = SlotBlob(h, origin').key
                  /\ ~JsonParseThrows(SlotBlob(h, origin').pt)
                  /\ vault' = JsonParse(SlotBlob(h, origin').pt) ]_vars


SaltMatches(blob, salt) == blob # NoBlob => blob.key = DeriveKey(blob.key.pwd, salt)

\* C34: every stored blob is sealed under a key derived from the salt that is
\* stored for its slot, in every state reached by setup, setupDuress,
\* importBackup, unlock and save in any order.
C34_BlobMatchesStoredSalt ==
    /\ SaltMatches(store.encrypted_vault, store.vault_salt)
    /\ SaltMatches(store.decoy_vault, store.decoy_salt)


\* handleSaveEntry call h is resumed by this step
Resumes(h) ==
    \E o \in BreachOutcomes, c \in BOOLEAN : handleSaveEntryResume(h, o, c)

\* the modal was cancelled and not opened again: it is hidden and new-password
\* still holds what was typed (a dispatch clears the inputs, openModal shows it)
Cancelled == ~modal.open /\ modal.form.password # ""

\* C35: a handleSaveEntry that resumes from the breach check after the modal
\* was cancelled adds no entry and modifies none.
C35_CancelledSaveDropped ==
    [][ \A h \in BagToSet(pend) : (Resumes(h) /\ Cancelled) => vault' = vault ]_vars


\* an entry the entry modal may add: it has a title and a password
Filled(e) == e.title # "" /\ e.password # ""

\* C36: every entry that a save of the entry modal appends to the vault has a
\* non-empty title and a non-empty password, also when add-btn was clicked
\* again while an earlier handleSaveEntry was awaiting the breach check.
C36_AddedEntriesFilled ==
    [][ \A h \in BagToSet(pend) :
          (Resumes(h) /\ Len(vault') = Len(vault) + 1) => Filled(vault'[Len(vault')]) ]_vars


\* C37: no step of an unlock attempt (the click up to its first await, the
\* resumption in the primary block, the resumption in the decoy block), whether
\* it opens a session or denies, changes the key-value store: blobs, salts,
\* the initialised mark and the biometric slots stay as they were, and a salt
\* that getSalt generated because none was stored is not stored.
C37_UnlockWritesNothing ==
    [][ ( \/ \E p \in Passwords \cup {""} : UnlockClick(p)
          \/ \E h \in InFlight : UnlockReal(h) \/ UnlockDecoy(h) )
          => store' = store ]_vars

\* an attempt on a decoy blob with no stored salt was denied: getSalt had
\* generated a salt for it, and decoy_salt is still unset
C37_Witness ==
    /\ alertMsg = MsgDenied
    /\ alertFor.slots \in {"decoyOnly", "both"}
    /\ store.decoy_vault # NoBlob
    /\ store.decoy_salt = NoSalt


\* the primary slot as a setup with password p leaves it: the empty vault sealed
\* under the key of p and the stored salt, and the initialised mark
FreshPrimary(s, p) ==
    /\ s.encrypted_vault # NoBlob
    /\ s.vault_salt # NoSalt
    /\ s.vault_initialized
    /\ s.encrypted_vault.key = DeriveKey(p, s.vault_salt)
    /\ s.encrypted_vault.pt = JsonStringify(<<>>)
    /\ s.encrypted_vault.intact

\* C38: a setup whose password is shorter than 12 characters or differs from
\* its confirmation stores nothing; any other setup stores encrypted_vault,
\* vault_salt and vault_initialized, the blob being the empty vault sealed under
\* the password and that salt; and an unlock handler that then decrypts this
\* primary slot with the same password opens the primary session with an empty
\* vault and shows the vault view.
C38_SetupCreatesPrimary ==
    [][ /\ \A p1 \in SetupPwds, p2 \in ConfirmPwds :
             handleFinishSetup(p1, p2)
                => IF PwdLen(p1) >= 12 /\ p1 = p2
                   THEN FreshPrimary(store', p1) /\ store'.vault_salt # store.vault_salt
                   ELSE store' = store
        /\ \A h \in InFlight :
             (UnlockReal(h) /\ ReadCurrent(h) /\ FreshPrimary(store, h.pwd))
                => /\ sessionKey' = DeriveKey(h.pwd, store.vault_salt)
                   /\ isDecoyMode' = FALSE
                   /\ origin' = "primary"
                   /\ vault' = <<>>
                   /\ view' = "vault" ]_vars

\* the slot a setup created here (not restored from a backup) was opened with
\* the setup password: primary session, empty vault
C38_Witness ==
    /\ FreshPrimary(store, "pwA")
    /\ store.vault_salt # BackupSalt
    /\ store.encrypted_vault.iv # 0
    /\ view = "vault"
    /\ origin = "primary"
    /\ sessionKey = store.encrypted_vault.key
    /\ vault = <<>>
    /\ masterPwd = "pwA"

====
